---- MODULE Spec2Model ----
(***************************************************************************)
(* Model of contentcuration/models.py: the content-addressed File store    *)
(* (file_on_disk_name, FileOnDiskStorage, File.save and the post_delete    *)
(* receiver auto_delete_file_on_delete) and the two relationship tables    *)
(* (PrerequisiteContentRelationship, RelatedContentRelationship).          *)
(*                                                                         *)
(* Strings are sequences of one-character strings, so that os.path.join,   *)
(* os.path.splitext, str.lower and slicing are computed, not assumed.      *)
(***************************************************************************)
EXTENDS Integers, Sequences, FiniteSets, TLC

\* ------------------------------------------------------------------ bounds
MaxFiles == 3
MaxNodes == 2

\* ------------------------------------------------------- python-level values
\* Python None for a string-valued attribute, and "attribute never assigned".
None == <<"None">>
Unset == <<"Unset">>
\* Python None for file_size (IntegerField(null=True)).
NoSize == 0 - 1

\* ------------------------------------------------------------ string helpers
\* str.lower on one character of the model's alphabet.
LowerChar(c) == IF c = "T" THEN "t" ELSE IF c = "X" THEN "x" ELSE c

lower(s) == [i \in 1..Len(s) |-> LowerChar(s[i])]

\* str.rfind, 1-based; 0 when the character does not occur.
rfind(s, c) ==
  LET hits == {i \in 1..Len(s) : s[i] = c}
  IN IF hits = {} THEN 0 ELSE CHOOSE i \in hits : \A j \in hits : j <= i

\* os.path.splitext(p)[1]: the suffix from the last dot, provided the dot
\* comes after the last separator and is not one of the leading dots of the
\* file name.
splitext(p) ==
  LET sepIndex == rfind(p, "/")
      dotIndex == rfind(p, ".")
  IN IF /\ dotIndex > sepIndex
        /\ \E k \in (sepIndex + 1)..(dotIndex - 1) : p[k] # "."
     THEN SubSeq(p, dotIndex, Len(p))
     ELSE << >>

\* posixpath.join of two components.
join2(a, b) ==
  IF b # << >> /\ b[1] = "/" THEN b
  ELSE IF a = << >> \/ a[Len(a)] = "/" THEN a \o b
  ELSE a \o <<"/">> \o b

\* os.path.join(a, b, c) and os.path.join(a, b, c, d)
join3(a, b, c) == join2(join2(a, b), c)

join4(a, b, c, d) == join2(join3(a, b, c), d)

\* Python slice s[i:j] with 0-based half-open bounds, clipped to the string.
slice(s, i, j) ==
  LET hi == IF j > Len(s) THEN Len(s) ELSE j
  IN IF i >= hi THEN << >> ELSE SubSeq(s, i + 1, hi)

\* ------------------------------------------------------------------- inputs
\* Uploaded byte strings and the names they are uploaded under.
Blobs == { <<1>>, <<2, 2>> }
UploadNames == { <<"x", ".", "t">>, <<"x", ".", "T">> }

\* hashlib.md5(...).hexdigest(), shortened to three hex digits: a fixed
\* injective table over the blobs of the model.
md5(blob) == IF blob = <<1>> THEN <<"a", "b", "c">> ELSE <<"b", "a", "d">>

\* --------------------------------------------------------------- settings
\* The settings module is not among the sources. Paths of the model are
\* relative to the directory FileOnDiskStorage() writes to.
\* settings.STORAGE_ROOT is that directory: the receiver removes a blob where
\* the storage wrote it.
STORAGE_ROOT == << >>
\* settings.MEDIA_URL, the base_url of FileOnDiskStorage(), is empty: the url
\* of a stored file is the name kept in the file_on_disk column.
MEDIA_URL == << >>
\* instance.file_on_disk.url: urljoin(base_url, name).
url(name) == MEDIA_URL \o name

\* ---------------------------------------------------------------- the code
\* file_on_disk_name(instance, filename), instance.checksum = h.
file_on_disk_name(h, filename) ==
  LET ext == splitext(filename)
  IN join3(<<h[1]>>, <<h[2]>>, h \o lower(ext))

\* --------------------------------------------------------------- the state
VARIABLES
  storage,  \* the blob store: a function from the paths that exist to their bytes
  rows,     \* the File table: primary key -> row (columns only)
  objs,     \* the File instance a caller holds for each primary key
  prereq,   \* the PrerequisiteContentRelationship table: <<target_node, prerequisite>>
  related,  \* the RelatedContentRelationship table: <<contentnode_1, contentnode_2>>
  result,   \* what the last call was and how it ended
  att,      \* a File.save in flight (concurrent specification only)
  det,      \* a File delete in flight (concurrent specification only)
  raced     \* paths removed by a delete that overlapped a save of the same path

vars == <<storage, rows, objs, prereq, related, result, att, det, raced>>

Ids == 1..MaxFiles
Nodes == 1..MaxNodes

\* ------------------------------------------------------------ FieldFile values
\* instance.file_on_disk: nothing attached, a fresh upload, or a stored file.
EmptyFile == [name |-> None, content |-> << >>, committed |-> TRUE]
Upload(blob, name) == [name |-> name, content |-> blob, committed |-> FALSE]
Committed(name) == [name |-> name, content |-> << >>, committed |-> TRUE]

NoFileRow == [checksum |-> None, file_size |-> NoSize, file_on_disk |-> None, live |-> FALSE]
NoInstance == [checksum |-> None, file_size |-> NoSize, extension |-> Unset,
               file_on_disk |-> EmptyFile, live |-> FALSE]

\* ------------------------------------------------------------ the blob store
exists(store, name) == name \in DOMAIN store

\* os.remove
remove(store, name) == [p \in DOMAIN store \ {name} |-> store[p]]

\* _save returning the name whether or not a file exists under it.
_save_returns_name(store, name, content) == [raised |-> "", storage |-> store]

\* FileOnDiskStorage._save(name, content): an existing name is returned as it
\* is; otherwise the call goes to super(ContentCopyStorage, self), and
\* ContentCopyStorage is not a name of the module: NameError, nothing written.
_save(store, name, content) ==
  IF exists(store, name)
  THEN [raised |-> "", storage |-> store]
  ELSE [raised |-> "NameError", storage |-> store]

\* The File.checksum column is CharField(blank=True): NOT NULL.
checksum_column_accepts(value) == value # None

\* File.save(): recompute the derived attributes from the attached file, let the
\* FileField store an uncommitted file (pre_save), then write the row.
\* o is the instance, pk its primary key, table the File table.
\* Gives the instance, the store and the table afterwards, and what was raised.
File_save(o, pk, store, table) ==
  LET f == o.file_on_disk
      attached == f.name # None
      unreadable == attached /\ f.committed /\ ~exists(store, f.name)
      content == IF ~attached \/ unreadable THEN << >>
                 ELSE IF f.committed THEN store[f.name] ELSE f.content
      o1 == IF attached
            THEN [o EXCEPT !.checksum = md5(content),
                           !.file_size = Len(content),
                           !.extension = splitext(f.name)]
            ELSE [o EXCEPT !.checksum = None, !.file_size = NoSize, !.extension = None]
      name == IF attached /\ ~f.committed THEN file_on_disk_name(o1.checksum, f.name)
              ELSE f.name
      saved == IF attached /\ ~f.committed THEN _save(store, name, content)
               ELSE [raised |-> "", storage |-> store]
      o2 == [o1 EXCEPT !.file_on_disk = IF attached THEN Committed(name) ELSE EmptyFile,
                       !.live = TRUE]
      row == [checksum |-> o2.checksum, file_size |-> o2.file_size,
              file_on_disk |-> IF attached THEN name ELSE << >>, live |-> TRUE]
  IN IF unreadable
     THEN [raised |-> "IOError", obj |-> o, storage |-> store, rows |-> table]
     ELSE IF saved.raised # ""
     THEN [raised |-> saved.raised, obj |-> o1, storage |-> saved.storage, rows |-> table]
     ELSE IF ~checksum_column_accepts(o2.checksum)
     THEN [raised |-> "IntegrityError", obj |-> [o2 EXCEPT !.live = o.live],
           storage |-> saved.storage, rows |-> table]
     ELSE [raised |-> "", obj |-> o2, storage |-> saved.storage,
           rows |-> [table EXCEPT ![pk] = row]]

\* The path auto_delete_file_on_delete builds from the instance's attributes.
content_copy_path(checksum, extension) ==
  join4(STORAGE_ROOT, slice(checksum, 0, 1), slice(checksum, 1, 2), checksum \o extension)

\* File.objects.filter(file_on_disk=value): is there such a row.
referenced(table, value) ==
  \E i \in DOMAIN table : table[i].live /\ table[i].file_on_disk = value

\* The receiver without the query for other referencing rows.
auto_delete_without_query(o, store, table) ==
  IF o.file_on_disk.name = None
  THEN [raised |-> "ValueError", storage |-> store]
  ELSE IF o.checksum = None \/ o.extension = None
  THEN [raised |-> "TypeError", storage |-> store]
  ELSE IF o.extension = Unset
  THEN [raised |-> "AttributeError", storage |-> store]
  ELSE [raised |-> "",
        storage |-> remove(store, content_copy_path(o.checksum, o.extension))]

\* Lines 294-295 of the receiver: what it raises, or the path it goes on to
\* look at; None when another row references the instance's file. table is
\* the File table with the instance's row already deleted.
unreferenced_copy(o, table) ==
  IF o.file_on_disk.name = None
  THEN [raised |-> "ValueError", path |-> None]
  ELSE IF referenced(table, url(o.file_on_disk.name))
  THEN [raised |-> "", path |-> None]
  ELSE IF o.checksum = None
  THEN [raised |-> "TypeError", path |-> None]
  ELSE IF o.extension = Unset
  THEN [raised |-> "AttributeError", path |-> None]
  ELSE IF o.extension = None
  THEN [raised |-> "TypeError", path |-> None]
  ELSE [raised |-> "", path |-> content_copy_path(o.checksum, o.extension)]

\* Lines 296-297 of the receiver: os.remove if os.path.isfile.
remove_if_file(store, path) ==
  IF exists(store, path) THEN remove(store, path) ELSE store

\* auto_delete_file_on_delete(sender, instance), run without interruption.
auto_delete_file_on_delete(o, store, table) ==
  LET t == unreferenced_copy(o, table)
  IN [raised |-> t.raised,
      storage |-> IF t.raised = "" /\ t.path # None
                  THEN remove_if_file(store, t.path) ELSE store]

\* ------------------------------------------------------------ initial states
\* The blob store outlives the process: it starts with any set of blobs stored
\* under the names file_on_disk_name gives them.
StoreOf(S) ==
  [p \in {file_on_disk_name(md5(u[1]), u[2]) : u \in S} |->
     CHOOSE b \in Blobs : \E u \in S : u[1] = b /\ file_on_disk_name(md5(b), u[2]) = p]

NoPair == <<0, 0>>
NoResult == [op |-> "none", id |-> 0, name |-> << >>, raised |-> "",
             pair |-> NoPair, outcome |-> ""]
Idle == [stage |-> "idle", id |-> 0, obj |-> NoInstance, name |-> << >>,
         row |-> NoFileRow, overlapped |-> FALSE]

InitFiles ==
  /\ storage \in {StoreOf(S) : S \in SUBSET (Blobs \X UploadNames)}
  /\ rows = [i \in Ids |-> NoFileRow]
  /\ objs = [i \in Ids |-> NoInstance]
  /\ result = NoResult
  /\ att = Idle
  /\ det = Idle
  /\ raced = {}

InitRelations ==
  /\ prereq = {}
  /\ related = {}

Init == InitFiles /\ InitRelations

\* ------------------------------------------------------- File: whole calls
relUnchanged == UNCHANGED <<prereq, related>>
raceUnchanged == UNCHANGED <<att, det, raced>>

\* The effect of instance.save() for the instance o under primary key pk.
SaveCall(op, o, pk) ==
  LET r == File_save(o, pk, storage, rows)
      f == o.file_on_disk
      derived == IF f.name # None /\ ~f.committed
                 THEN file_on_disk_name(md5(f.content), f.name)
                 ELSE IF f.name # None THEN f.name ELSE << >>
  IN /\ storage' = r.storage
     /\ rows' = r.rows
     /\ objs' = [objs EXCEPT ![pk] = IF r.obj.live THEN r.obj ELSE NoInstance]
     /\ result' = [NoResult EXCEPT !.op = op, !.id = pk, !.name = derived, !.raised = r.raised]
     /\ relUnchanged /\ raceUnchanged

\* File(file_on_disk=upload).save(): a new record.
AttachNew(pk, blob, filename) ==
  /\ ~rows[pk].live
  /\ SaveCall("attach", [NoInstance EXCEPT !.file_on_disk = Upload(blob, filename)], pk)

\* instance.file_on_disk = upload; instance.save(): an existing record.
AttachExisting(pk, blob, filename) ==
  /\ rows[pk].live
  /\ SaveCall("attach", [objs[pk] EXCEPT !.file_on_disk = Upload(blob, filename)], pk)

\* instance.save() with the file it already has.
Resave(pk) ==
  /\ rows[pk].live
  /\ objs[pk].file_on_disk.name # None
  /\ objs[pk].file_on_disk.committed
  /\ SaveCall("resave", objs[pk], pk)

\* instance.file_on_disk = None; instance.save()
Clear(pk) ==
  /\ rows[pk].live
  /\ SaveCall("clear", [objs[pk] EXCEPT !.file_on_disk = EmptyFile], pk)

\* File.objects.get(pk=pk): a fresh instance, built from the columns.
Load(pk) ==
  /\ rows[pk].live
  /\ objs' = [objs EXCEPT ![pk] =
                [checksum |-> rows[pk].checksum, file_size |-> rows[pk].file_size,
                 extension |-> Unset,
                 file_on_disk |-> IF rows[pk].file_on_disk = << >> THEN EmptyFile
                                  ELSE Committed(rows[pk].file_on_disk),
                 live |-> TRUE]]
  /\ result' = [NoResult EXCEPT !.op = "load", !.id = pk, !.name = rows[pk].file_on_disk]
  /\ UNCHANGED <<storage, rows>>
  /\ relUnchanged /\ raceUnchanged

\* instance.delete(): the row is deleted and post_delete runs inside the same
\* transaction; an exception of the receiver rolls the deletion back.
Delete(pk) ==
  /\ rows[pk].live
  /\ LET table == [rows EXCEPT ![pk] = NoFileRow]
         r == auto_delete_file_on_delete(objs[pk], storage, table)
     IN /\ result' = [NoResult EXCEPT !.op = "delete", !.id = pk,
                                      !.name = rows[pk].file_on_disk, !.raised = r.raised]
        /\ IF r.raised = ""
           THEN /\ rows' = table
                /\ storage' = r.storage
                /\ objs' = [objs EXCEPT ![pk] = NoInstance]
           ELSE UNCHANGED <<rows, storage, objs>>
  /\ relUnchanged /\ raceUnchanged

NextFiles ==
  \/ \E pk \in Ids, blob \in Blobs, filename \in UploadNames : AttachNew(pk, blob, filename)
  \/ \E pk \in Ids, blob \in Blobs, filename \in UploadNames : AttachExisting(pk, blob, filename)
  \/ \E pk \in Ids : Resave(pk)
  \/ \E pk \in Ids : Clear(pk)
  \/ \E pk \in Ids : Load(pk)
  \/ \E pk \in Ids : Delete(pk)

Spec == Init /\ [][NextFiles]_vars

\* ------------------------------------------------------- relationship tables
SelfPrerequisite == "Cannot self reference as prerequisite."
Directional == "Prerequisite relationship is directional!"
SelfRelated == "Cannot self reference as related."
NotUnique == "already exists"

Pairs == Nodes \X Nodes
reverse(pair) == <<pair[2], pair[1]>>

\* clean() without the immediate-cycle branch.
Prerequisite_clean_no_cycle_check(pair, table) ==
  IF pair[1] = pair[2] THEN SelfPrerequisite ELSE ""

\* clean() without the self-reference branch.
Prerequisite_clean_no_self_check(pair, table) ==
  IF reverse(pair) \in table THEN Directional ELSE ""

\* PrerequisiteContentRelationship.clean(): pair is <<target_node, prerequisite>>.
Prerequisite_clean(pair, table) ==
  IF pair[1] = pair[2] THEN SelfPrerequisite
  ELSE IF reverse(pair) \in table THEN Directional
  ELSE ""

\* PrerequisiteContentRelationship.save(): full_clean() (clean, then the
\* unique_together check, which leaves the instance's own row out), then the
\* row is written. old is the row the instance was loaded from, NoPair for a
\* new instance.
Prerequisite_save(old, pair, table) ==
  LET cleaned == Prerequisite_clean(pair, table)
  IN IF cleaned # "" THEN [raised |-> cleaned, outcome |-> "", table |-> table]
     ELSE IF pair \in table \ {old}
     THEN [raised |-> NotUnique, outcome |-> "", table |-> table]
     ELSE [raised |-> "", outcome |-> "saved", table |-> (table \ {old}) \cup {pair}]

\* save() without the branch that cancels the save of a reversed pair.
Related_save_no_reverse_check(old, pair, table) ==
  IF pair[1] = pair[2] THEN [raised |-> SelfRelated, outcome |-> "", table |-> table]
  ELSE IF pair \in table \ {old}
  THEN [raised |-> NotUnique, outcome |-> "", table |-> table]
  ELSE [raised |-> "", outcome |-> "saved", table |-> (table \ {old}) \cup {pair}]

\* RelatedContentRelationship.save(): pair is <<contentnode_1, contentnode_2>>.
\* The unique_together constraint is the database's.
Related_save(old, pair, table) ==
  IF pair[1] = pair[2] THEN [raised |-> SelfRelated, outcome |-> "", table |-> table]
  ELSE IF reverse(pair) \in table
  THEN [raised |-> "", outcome |-> "suppressed", table |-> table]
  ELSE IF pair \in table \ {old}
  THEN [raised |-> NotUnique, outcome |-> "", table |-> table]
  ELSE [raised |-> "", outcome |-> "saved", table |-> (table \ {old}) \cup {pair}]

filesUnchanged == UNCHANGED <<storage, rows, objs, att, det, raced>>

RelResult(op, pair, r) ==
  [NoResult EXCEPT !.op = op, !.pair = pair, !.raised = r.raised, !.outcome = r.outcome]

\* PrerequisiteContentRelationship(target_node=a, prerequisite=b).save()
SavePrerequisite(pair) ==
  LET r == Prerequisite_save(NoPair, pair, prereq)
  IN /\ prereq' = r.table
     /\ result' = RelResult("prerequisite", pair, r)
     /\ UNCHANGED related /\ filesUnchanged

\* An existing edge is given new end points and saved.
UpdatePrerequisite(old, pair) ==
  /\ old \in prereq
  /\ LET r == Prerequisite_save(old, pair, prereq)
     IN /\ prereq' = r.table
        /\ result' = RelResult("update prerequisite", pair, r)
  /\ UNCHANGED related /\ filesUnchanged

DeletePrerequisite(pair) ==
  /\ pair \in prereq
  /\ prereq' = prereq \ {pair}
  /\ result' = [NoResult EXCEPT !.op = "delete prerequisite", !.pair = pair]
  /\ UNCHANGED related /\ filesUnchanged

\* RelatedContentRelationship(contentnode_1=a, contentnode_2=b).save()
SaveRelated(pair) ==
  LET r == Related_save(NoPair, pair, related)
  IN /\ related' = r.table
     /\ result' = RelResult("related", pair, r)
     /\ UNCHANGED prereq /\ filesUnchanged

UpdateRelated(old, pair) ==
  /\ old \in related
  /\ LET r == Related_save(old, pair, related)
     IN /\ related' = r.table
        /\ result' = RelResult("update related", pair, r)
  /\ UNCHANGED prereq /\ filesUnchanged

DeleteRelated(pair) ==
  /\ pair \in related
  /\ related' = related \ {pair}
  /\ result' = [NoResult EXCEPT !.op = "delete related", !.pair = pair]
  /\ UNCHANGED prereq /\ filesUnchanged

NextRelations ==
  \/ \E pair \in Pairs : SavePrerequisite(pair)
  \/ \E old \in Pairs, pair \in Pairs : UpdatePrerequisite(old, pair)
  \/ \E pair \in Pairs : DeletePrerequisite(pair)
  \/ \E pair \in Pairs : SaveRelated(pair)
  \/ \E old \in Pairs, pair \in Pairs : UpdateRelated(old, pair)
  \/ \E pair \in Pairs : DeleteRelated(pair)

\* The store is empty and no File exists: only the relationship tables move.
InitNoFiles ==
  /\ storage = StoreOf({})
  /\ rows = [i \in Ids |-> NoFileRow]
  /\ objs = [i \in Ids |-> NoInstance]
  /\ result = NoResult
  /\ att = Idle
  /\ det = Idle
  /\ raced = {}

InitGuard == InitNoFiles /\ InitRelations

SpecRelations == InitGuard /\ [][NextRelations]_vars

\* ------------------------------------------------- relationship properties
PrerequisiteSaves == {"prerequisite", "update prerequisite"}
RelatedSaves == {"related", "update related"}

NoTwoCycle == \A pair \in prereq : pair[1] # pair[2] => reverse(pair) \notin prereq

DirectionalRejected ==
  (/\ result'.op \in PrerequisiteSaves
   /\ result'.pair[1] # result'.pair[2]
   /\ reverse(result'.pair) \in prereq)
  => (result'.raised = Directional /\ prereq' = prereq)

\* C4: the prerequisite table never holds both (A, B) and (B, A); a save of
\* (A, B) while (B, A) exists ends with the directional-cycle error and leaves
\* the table as it was.
C4_NoImmediateCycle == [] NoTwoCycle /\ [][DirectionalRejected]_vars

C4_Witness ==
  /\ result.op = "prerequisite"
  /\ result.raised = Directional
  /\ reverse(result.pair) \in prereq
  /\ result.pair \notin prereq

OneRowPerUnorderedPair == \A pair \in related : pair[1] # pair[2] => reverse(pair) \notin related

ReverseSuppressed ==
  (/\ result'.op \in RelatedSaves
   /\ result'.pair[1] # result'.pair[2]
   /\ reverse(result'.pair) \in related)
  => (result'.raised = "" /\ result'.outcome = "suppressed" /\ related' = related)

FreshInserted ==
  (/\ result'.op = "related"
   /\ result'.pair[1] # result'.pair[2]
   /\ result'.pair \notin related
   /\ reverse(result'.pair) \notin related)
  => (result'.raised = "" /\ result'.outcome = "saved"
      /\ related' = related \cup {result'.pair})

\* C5: there is at most one related row between two distinct nodes, whatever
\* the order; a save of (B, A) while (A, B) exists raises nothing, writes
\* nothing and is suppressed; a save of (A, B) with neither order present
\* inserts exactly that row.
C5_RelatedSymmetric ==
  [] OneRowPerUnorderedPair /\ [][ReverseSuppressed /\ FreshInserted]_vars

C5_Witness ==
  /\ result.op = "related"
  /\ result.outcome = "suppressed"
  /\ result.raised = ""
  /\ reverse(result.pair) \in related
  /\ result.pair \notin related

NoSelfLoop == \A a \in Nodes : <<a, a>> \notin prereq /\ <<a, a>> \notin related

SelfRejected ==
  (result'.op \in PrerequisiteSaves \cup RelatedSaves /\ result'.pair[1] = result'.pair[2])
  => (/\ result'.raised = (IF result'.op \in PrerequisiteSaves
                            THEN SelfPrerequisite ELSE SelfRelated)
      /\ prereq' = prereq
      /\ related' = related)

\* C6: no self-loop is ever stored in either table; a save of (A, A) ends with
\* the self-reference error and leaves both tables as they were.
C6_NoSelfLoop == [] NoSelfLoop /\ [][SelfRejected]_vars

C6_Witness ==
  /\ result.op = "prerequisite"
  /\ result.pair[1] = result.pair[2]
  /\ result.raised = SelfPrerequisite
  /\ related # {}

\* --------------------------------------------------- file store properties
\* The rows that reference a stored name. The stored name is the path derived
\* from the checksum and the lower-cased extension.
Referencing(table, name) == {pk \in Ids : table[pk].live /\ table[pk].file_on_disk = name}

BlobKeptWhileReferenced ==
  \A name \in DOMAIN storage : Referencing(rows', name) # {} => name \in DOMAIN storage'

\* C1: a blob is never removed while a surviving File row still references its
\* path; in particular deleting one of two rows that share a path keeps it.
C1_SharedBlobKept == [][BlobKeptWhileReferenced]_vars

C1_Witness ==
  /\ result.op = "delete"
  /\ result.raised = ""
  /\ Referencing(rows, result.name) # {}
  /\ result.name \in DOMAIN storage

\* C2: after a delete that leaves no File row with the deleted row's checksum
\* and extension, no blob exists at the derived path.
C2_LastDeleteReclaims ==
  (/\ result.op = "delete"
   /\ result.raised = ""
   /\ Referencing(rows, result.name) = {})
  => result.name \notin DOMAIN storage

\* C3: every attach ends without an error and with the blob stored at the
\* derived path: the first one writes it, the later ones find it there.
C3_AttachStoresBlob ==
  result.op = "attach" => (result.raised = "" /\ result.name \in DOMAIN storage)

\* C7: the post-delete hook never raises.
C7_DetachNeverRaises == result.op = "delete" => result.raised = ""

ClearNullsRow ==
  result'.op = "clear"
  => (/\ result'.raised = ""
      /\ rows'[result'.id].checksum = None
      /\ rows'[result'.id].file_size = NoSize
      /\ storage' = storage)

\* C8: saving an existing record with no blob attached nulls its checksum and
\* file_size and leaves the blob store unchanged.
C8_ClearNullsRecord == [][ClearNullsRow]_vars

\* C10: for every record, the path the post-delete hook builds from the
\* instance's checksum and extension is the path its blob was stored at.
C10_DetachPathIsAttachPath ==
  \A pk \in Ids :
    (/\ rows[pk].live
     /\ objs[pk].live
     /\ objs[pk].file_on_disk = Committed(rows[pk].file_on_disk)
     /\ objs[pk].extension \notin {Unset, None})
    => content_copy_path(objs[pk].checksum, objs[pk].extension) = rows[pk].file_on_disk

\* ------------------------------------------- File: one save racing one delete
\* A save of a new record and a delete of a record, each split where another
\* request can run: the save between the storage step (FileField.pre_save,
\* FileOnDiskStorage._save) and the INSERT; the delete between the receiver's
\* query and its os.remove.
\* File(file_on_disk=upload).save() up to and including _save.
SaveStore(pk, blob, filename) ==
  /\ att.stage = "idle"
  /\ ~rows[pk].live
  /\ det.id # pk
  /\ LET o == [NoInstance EXCEPT !.file_on_disk = Upload(blob, filename)]
         r == File_save(o, pk, storage, rows)
         name == file_on_disk_name(md5(blob), filename)
     IN /\ storage' = r.storage
        /\ IF r.raised = ""
           THEN /\ att' = [Idle EXCEPT !.stage = "insert", !.id = pk, !.obj = r.obj,
                                       !.name = name, !.row = r.rows[pk]]
                /\ result' = [NoResult EXCEPT !.op = "attach begun", !.id = pk, !.name = name]
           ELSE /\ att' = Idle
                /\ result' = [NoResult EXCEPT !.op = "attach", !.id = pk, !.name = name,
                                              !.raised = r.raised]
  /\ UNCHANGED <<rows, objs, det, raced>>
  /\ relUnchanged

\* The INSERT that ends the save.
SaveInsert ==
  /\ att.stage = "insert"
  /\ rows' = [rows EXCEPT ![att.id] = att.row]
  /\ objs' = [objs EXCEPT ![att.id] = att.obj]
  /\ result' = [NoResult EXCEPT !.op = "attach", !.id = att.id, !.name = att.name]
  /\ det' = IF det.stage = "remove" /\ det.name = att.name
            THEN [det EXCEPT !.overlapped = TRUE] ELSE det
  /\ att' = Idle
  /\ UNCHANGED <<storage, raced>>
  /\ relUnchanged

\* instance.delete() up to and including the receiver's query.
DeleteQuery(pk) ==
  /\ det.stage = "idle"
  /\ rows[pk].live
  /\ LET table == [rows EXCEPT ![pk] = NoFileRow]
         t == unreferenced_copy(objs[pk], table)
     IN IF t.raised # ""
        THEN /\ result' = [NoResult EXCEPT !.op = "delete", !.id = pk,
                                           !.name = rows[pk].file_on_disk, !.raised = t.raised]
             /\ UNCHANGED <<rows, objs, det>>
        ELSE /\ rows' = table
             /\ objs' = [objs EXCEPT ![pk] = NoInstance]
             /\ IF t.path = None
                THEN /\ det' = Idle
                     /\ result' = [NoResult EXCEPT !.op = "delete", !.id = pk,
                                                   !.name = rows[pk].file_on_disk]
                ELSE /\ det' = [Idle EXCEPT !.stage = "remove", !.id = pk, !.name = t.path,
                                            !.row = rows[pk]]
                     /\ result' = [NoResult EXCEPT !.op = "delete begun", !.id = pk,
                                                   !.name = rows[pk].file_on_disk]
  /\ UNCHANGED <<storage, att, raced>>
  /\ relUnchanged

\* The receiver's os.path.isfile and os.remove, and the end of the delete.
DeleteRemove ==
  /\ det.stage = "remove"
  /\ storage' = remove_if_file(storage, det.name)
  /\ raced' = IF /\ exists(storage, det.name)
                 /\ \/ det.overlapped
                    \/ (att.stage = "insert" /\ att.name = det.name)
              THEN raced \cup {det.name} ELSE raced
  /\ result' = [NoResult EXCEPT !.op = "delete", !.id = det.id, !.name = det.row.file_on_disk]
  /\ det' = Idle
  /\ UNCHANGED <<rows, objs, att>>
  /\ relUnchanged

NextRace ==
  \/ \E pk \in Ids, blob \in Blobs, filename \in UploadNames : SaveStore(pk, blob, filename)
  \/ SaveInsert
  \/ \E pk \in Ids : DeleteQuery(pk)
  \/ DeleteRemove

SpecRace == Init /\ [][NextRace]_vars

\* The rows whose file is not in the blob store.
Dangling == {pk \in Ids : rows[pk].live /\ rows[pk].file_on_disk \notin DOMAIN storage}

\* C9: a File row can come to reference a path with no blob, and only through
\* a delete whose query and os.remove were interleaved with a save of the same
\* path (the save skipped the write because the blob was there, the delete saw
\* no other row and removed it).
C9_DanglingOnlyByRace == \A pk \in Dangling : rows[pk].file_on_disk \in raced

\* The save ended after the delete removed the blob it had found in place.
C9_Witness ==
  /\ result.op = "attach"
  /\ result.raised = ""
  /\ result.id \in Dangling
  /\ det.stage = "idle"

====
